---- MODULE Spec2Model ----
(***************************************************************************)
(* Model of mgf_2_fragTable.py: the spectra loader (load_mgf_spectra),     *)
(* the table builder (spectra_to_dataframe) and its helpers                *)
(* (extract_scans_fields, _first_param, get_precursor_mz,                  *)
(* select_fragments).                                                      *)
(*                                                                         *)
(* Python str values are sequences of one-character strings, so that       *)
(* lower(), endswith(), splitext(), split(), re.search and ';'.join are    *)
(* computed and not assumed.  float64 values are modelled bit for bit      *)
(* (sign, exponent, 53-bit significand, round-to-nearest-even), so that    *)
(* (intensity / base) * 100.0 >= min_rel_pct and round(r, 1) give what the *)
(* interpreter gives.                                                      *)
(***************************************************************************)
EXTENDS Integers, Sequences, FiniteSets, TLC

(***************************************************************************)
(* IEEE-754 binary64 arithmetic on the values select_fragments computes.   *)
(* A float is [s, e, m]: s the sign (1 or -1), e the exponent of the       *)
(* leading significand bit, and m the 52 significand bits after the        *)
(* leading 1, as four 13-bit limbs, most significant first; zero has       *)
(* m = <<>>.  The value is s * (1 + m / 2^52) * 2^e.                       *)
(***************************************************************************)
LimbBits == 13

Limb == 2^LimbBits

FZero == [s |-> 1, e |-> 0, m |-> <<>>]

\* The limbs plus one unit in the last place; <<>> when they wrap around.
RECURSIVE IncLimbs(_)
IncLimbs(l) ==
  IF l = <<>> THEN <<>>
  ELSE IF l[Len(l)] + 1 < Limb THEN [l EXCEPT ![Len(l)] = @ + 1]
  ELSE LET h == IncLimbs(SubSeq(l, 1, Len(l) - 1))
       IN IF h = <<>> THEN <<>> ELSE Append(h, 0)

\* Round to nearest, ties to even: up says the discarded part is above one
\* half unit in the last place, tie that it is exactly one half.
FRound(s, e, l, up, tie) ==
  IF up \/ (tie /\ l[4] % 2 = 1)
  THEN (IF IncLimbs(l) = <<>> THEN [s |-> s, e |-> e + 1, m |-> <<0, 0, 0, 0>>]
        ELSE [s |-> s, e |-> e, m |-> IncLimbs(l)])
  ELSE [s |-> s, e |-> e, m |-> l]

\* float(a) / float(b) for integers a, b with b > 0: the correctly rounded
\* quotient, by long division, 13 bits at a time.  FDiv(n, 1) is float(n);
\* FDiv(c, 100) is the float the decimal literal c/100 denotes.
FDiv(a, b) ==
  IF a = 0 THEN FZero
  ELSE LET s == IF a < 0 THEN -1 ELSE 1
           n == IF a < 0 THEN -a ELSE a
           up == IF n >= b
                 THEN CHOOSE k \in 0..29 : (n \div 2^k) >= b /\ (n \div 2^(k + 1)) < b
                 ELSE 0
           dn == IF n >= b THEN 0
                 ELSE CHOOSE k \in 1..29 : n * 2^k >= b /\ n * 2^(k - 1) < b
           num == n * 2^dn
           den == b * 2^up
           r0 == num - den
           q1 == (r0 * Limb) \div den
           r1 == (r0 * Limb) % den
           q2 == (r1 * Limb) \div den
           r2 == (r1 * Limb) % den
           q3 == (r2 * Limb) \div den
           r3 == (r2 * Limb) % den
           q4 == (r3 * Limb) \div den
           r4 == (r3 * Limb) % den
       IN FRound(s, up - dn, <<q1, q2, q3, q4>>, 2 * r4 > den, 2 * r4 = den)

\* x * float(c) for a small integer c >= 1, correctly rounded: the limbs
\* times c with the carries, shifted back to a leading 1.
FMulInt(x, c) ==
  IF x.m = <<>> THEN x
  ELSE LET t4 == x.m[4] * c
           t3 == x.m[3] * c + (t4 \div Limb)
           t2 == x.m[2] * c + (t3 \div Limb)
           t1 == x.m[1] * c + (t2 \div Limb)
           top == c + (t1 \div Limb)
           k == CHOOSE j \in 0..17 : 2^j <= top /\ top < 2^(j + 1)
           sh == 2^k
           d1 == t1 % Limb
           d2 == t2 % Limb
           d3 == t3 % Limb
           d4 == t4 % Limb
           n1 == ((top % sh) * Limb + d1) \div sh
           n2 == ((d1 % sh) * Limb + d2) \div sh
           n3 == ((d2 % sh) * Limb + d3) \div sh
           n4 == ((d3 % sh) * Limb + d4) \div sh
           rest == d4 % sh
       IN FRound(x.s, x.e + k, <<n1, n2, n3, n4>>, 2 * rest > sh, 2 * rest = sh)

\* |x| < |y|.
FLtMag(x, y) ==
  IF y.m = <<>> THEN FALSE
  ELSE IF x.m = <<>> THEN TRUE
  ELSE IF x.e # y.e THEN x.e < y.e
  ELSE \E i \in 1..4 : /\ x.m[i] < y.m[i]
                       /\ \A j \in 1..(i - 1) : x.m[j] = y.m[j]

\* x < y on floats.
FLt(x, y) ==
  IF x.s = 1 /\ y.s = 1 THEN FLtMag(x, y)
  ELSE IF x.s = -1 /\ y.s = -1 THEN FLtMag(y, x)
  ELSE x.s = -1 /\ (x.m # <<>> \/ y.m # <<>>)

FGe(x, y) == ~FLt(x, y)

FEq(x, y) == ~FLt(x, y) /\ ~FLt(y, x)

\* Bit i (1 the leading bit, 53 the last) of the significand of x # 0.
FBit(x, i) ==
  IF i = 1 THEN 1
  ELSE (x.m[((i - 2) \div LimbBits) + 1] \div 2^(LimbBits - 1 - ((i - 2) % LimbBits))) % 2

\* The integer part of x >= 1 (x.e in 0..13).
FFloor(x) == (Limb + x.m[1]) \div 2^(LimbBits - x.e)

\* numpy.rint of a float 0 <= x < 2^13, as an integer (ties to even).
FRint(x) ==
  IF x.m = <<>> \/ x.e < -1 THEN 0
  ELSE IF x.e = -1
       THEN (IF \E i \in 2..53 : FBit(x, i) = 1 THEN 1 ELSE 0)
  ELSE LET n == FFloor(x)
           half == FBit(x, x.e + 2) = 1
           more == \E i \in (x.e + 3)..53 : FBit(x, i) = 1
       IN IF half /\ (more \/ n % 2 = 1) THEN n + 1 ELSE n

(***************************************************************************)
(* Python str: a sequence of one-character strings.                        *)
(***************************************************************************)
DigitChars == <<"0", "1", "2", "3", "4", "5", "6", "7", "8", "9">>

IsDigit(c) == \E d \in 1..10 : DigitChars[d] = c

DigitVal(c) == (CHOOSE d \in 1..10 : DigitChars[d] = c) - 1

\* str(n) of an int n >= 0.
RECURSIVE IntStr(_)
IntStr(n) ==
  IF n < 10 THEN <<DigitChars[n + 1]>>
  ELSE Append(IntStr(n \div 10), DigitChars[(n % 10) + 1])

\* int(s) of a run of decimal digits.
RECURSIVE StrInt(_)
StrInt(s) ==
  IF s = <<>> THEN 0
  ELSE 10 * StrInt(SubSeq(s, 1, Len(s) - 1)) + DigitVal(s[Len(s)])

\* sep.join(parts)
RECURSIVE Join(_, _)
Join(parts, sep) ==
  IF parts = <<>> THEN <<>>
  ELSE IF Len(parts) = 1 THEN parts[1]
  ELSE Join(SubSeq(parts, 1, Len(parts) - 1), sep) \o sep \o parts[Len(parts)]

\* s.count(c) for a one-character c.
Count(s, c) == Cardinality({i \in 1..Len(s) : s[i] = c})

(***************************************************************************)
(* select_fragments.  The m/z values of the model are whole numbers and    *)
(* the intensities whole numbers (so every one is finite); min_rel_pct is  *)
(* given in hundredths of a percent (2900 is 29.0, 625 is 6.25), so        *)
(* float(min_rel_pct) is FDiv(min_rel_pct, 100).                           *)
(***************************************************************************)
\* str(round(mz, mz_decimals)) of a whole m/z value: 200.0 -> "200.0".
FormatMz(mz) == IntStr(mz) \o <<".", "0">>

\* round(r, rel_decimals) with rel_decimals = 1, in tenths: numpy rounds a
\* float64 as rint(r * 10) / 10.
RoundRel(r) == FRint(FMulInt(r, 10))

\* str(round(r, 1)): the shortest repr of the float nearest n / 10.
FormatRel(r) ==
  IntStr(RoundRel(r) \div 10) \o <<".">> \o IntStr(RoundRel(r) % 10)

\* arr[:, 1].max()
ArrMax(intens) ==
  CHOOSE v \in {intens[i] : i \in 1..Len(intens)} :
    \A i \in 1..Len(intens) : intens[i] <= v

\* np.isfinite(base): the model's intensities are whole numbers.
IsFinite(base) == base \in Int

\* rel = (arr[:, 1] / base) * 100.0
\* The relative intensity left as a fraction of the base peak.
RelPct_NoScale(intensity, base) == FDiv(intensity, base)

RelPct(intensity, base) == FMulInt(FDiv(intensity, base), 100)

\* keep = rel >= float(min_rel_pct)
\* The threshold read as a fraction of a percent.
KeepPeak_Fraction(rel, min_rel_pct) == FGe(rel, FDiv(min_rel_pct, 10000))

KeepPeak(rel, min_rel_pct) == FGe(rel, FDiv(min_rel_pct, 100))

\* np.lexsort((kept[:, 0], -kept[:, 1])): -rel ascending, then m/z
\* ascending; the sort is stable, so equal rows keep their order.
SortsBefore(i, j, mzs, rel) ==
  \/ FLt(rel[j], rel[i])
  \/ /\ FEq(rel[i], rel[j])
     /\ \/ mzs[i] < mzs[j]
        \/ mzs[i] = mzs[j] /\ i < j

RECURSIVE LexSort(_, _, _)
LexSort(S, mzs, rel) ==
  IF S = {} THEN <<>>
  ELSE LET b == CHOOSE i \in S : \A j \in S \ {i} : SortsBefore(i, j, mzs, rel)
       IN <<b>> \o LexSort(S \ {b}, mzs, rel)

\* seq[:n] for n >= 0
Take(seq, n) == SubSeq(seq, 1, IF n < Len(seq) THEN n ELSE Len(seq))

\* The indices of the peaks select_fragments writes, in the order written.
SelectedPeaks(mzs, intens, top_n, min_rel_pct) ==
  LET base == ArrMax(intens)
      rel == [i \in 1..Len(intens) |-> RelPct(intens[i], base)]
      keep == {i \in 1..Len(intens) : KeepPeak(rel[i], min_rel_pct)}
  IN Take(LexSort(keep, mzs, rel), top_n)

\* The arrays are lists here (spectra_to_dataframe passes `... or []`), so
\* the `is None` test of the source never holds and is left out.
select_fragments(mzs, intens, top_n, min_rel_pct) ==
  IF Len(mzs) = 0 \/ Len(intens) = 0 \/ Len(mzs) # Len(intens) THEN <<>>
  ELSE IF ~IsFinite(ArrMax(intens)) \/ ArrMax(intens) <= 0 THEN <<>>
  ELSE LET base == ArrMax(intens)
           sel == SelectedPeaks(mzs, intens, top_n, min_rel_pct)
           parts == [k \in 1..Len(sel) |->
                       FormatMz(mzs[sel[k]]) \o <<":">>
                         \o FormatRel(RelPct(intens[sel[k]], base))]
       IN Join(parts, <<";">>)

(***************************************************************************)
(* Header values.  A value of a spectrum's params is one of                *)
(*   "str"    with s its characters                                        *)
(*   "int"    with n the number                                            *)
(*   "float"  with n the float in hundredths (n / 100, two decimals)       *)
(*   "tuple"  with e its elements (a list or a tuple)                      *)
(*   "None"                                                                *)
(* as a record [t, s, n, e] whose unused fields are empty.  params is a    *)
(* dict: a sequence of [k |-> key, v |-> value] with distinct keys, in     *)
(* insertion order.                                                        *)
(***************************************************************************)
VStr(chars) == [t |-> "str", s |-> chars, n |-> 0, e |-> <<>>]

VInt(n) == [t |-> "int", s |-> <<>>, n |-> n, e |-> <<>>]

VFloat(h) == [t |-> "float", s |-> <<>>, n |-> h, e |-> <<>>]

VTuple(elems) == [t |-> "tuple", s |-> <<>>, n |-> 0, e |-> elems]

VNone == [t |-> "None", s |-> <<>>, n |-> 0, e |-> <<>>]

\* k in d
HasKey(d, k) == \E p \in 1..Len(d) : d[p].k = k

\* d[k]
Get(d, k) == d[CHOOSE p \in 1..Len(d) : d[p].k = k].v

\* d[k] = v : an existing key keeps its place, a new one goes last.
DictSet(d, k, v) ==
  IF HasKey(d, k)
  THEN [p \in 1..Len(d) |-> IF d[p].k = k THEN [k |-> k, v |-> v] ELSE d[p]]
  ELSE Append(d, [k |-> k, v |-> v])

UpperChars ==
  <<"A", "B", "C", "D", "E", "F", "G", "H", "I", "J", "K", "L", "M",
    "N", "O", "P", "Q", "R", "S", "T", "U", "V", "W", "X", "Y", "Z">>

LowerChars ==
  <<"a", "b", "c", "d", "e", "f", "g", "h", "i", "j", "k", "l", "m",
    "n", "o", "p", "q", "r", "s", "t", "u", "v", "w", "x", "y", "z">>

\* s.lower()
Lower(s) ==
  [p \in 1..Len(s) |->
     IF \E u \in 1..26 : UpperChars[u] = s[p]
     THEN LowerChars[CHOOSE u \in 1..26 : UpperChars[u] = s[p]]
     ELSE s[p]]

\* s.endswith(suffix)
EndsWith(s, suffix) ==
  /\ Len(s) >= Len(suffix)
  /\ SubSeq(s, Len(s) - Len(suffix) + 1, Len(s)) = suffix

IsSpace(c) == c = " "

\* s.strip()
Strip(s) ==
  LET ink == {p \in 1..Len(s) : ~IsSpace(s[p])}
  IN IF ink = {} THEN <<>>
     ELSE SubSeq(s, CHOOSE a \in ink : \A p \in ink : a <= p,
                    CHOOSE b \in ink : \A p \in ink : p <= b)

\* s.replace(",", " ").split(): the list of tokens, of which the callers
\* use the first; <<>> when there is none.
SplitTokens(s) ==
  LET r == [p \in 1..Len(s) |-> IF s[p] = "," THEN " " ELSE s[p]]
      ink == {p \in 1..Len(r) : ~IsSpace(r[p])}
  IN IF ink = {} THEN <<>>
     ELSE LET a == CHOOSE x \in ink : \A p \in ink : x <= p
              gaps == {p \in a..Len(r) : IsSpace(r[p])}
              b == IF gaps = {} THEN Len(r)
                   ELSE (CHOOSE x \in gaps : \A p \in gaps : x <= p) - 1
          IN <<SubSeq(r, a, b)>>

\* Whether float(s) accepts the string s: digits with at most one point
\* (the strings of the model hold digits, points, commas, colons, blanks
\* and letters that are no part of a float literal).
IsFloatStr(s) ==
  /\ \E p \in 1..Len(s) : IsDigit(s[p])
  /\ \A p \in 1..Len(s) : IsDigit(s[p]) \/ s[p] = "."
  /\ Cardinality({p \in 1..Len(s) : s[p] = "."}) <= 1

\* float(s) in hundredths, for a literal with at most two decimals.
FloatStrValue(s) ==
  LET dots == {p \in 1..Len(s) : s[p] = "."}
      d == IF dots = {} THEN Len(s) + 1 ELSE CHOOSE p \in dots : TRUE
      frac == SubSeq(s, d + 1, Len(s))
  IN 100 * StrInt(SubSeq(s, 1, d - 1))
       + (IF Len(frac) = 1 THEN 10 * StrInt(frac) ELSE StrInt(frac))

Failed == [ok |-> FALSE, val |-> 0]

\* float(x) inside try/except: [ok, val], val in hundredths.
TryFloatOf(x) ==
  IF x.t = "int" THEN [ok |-> TRUE, val |-> 100 * x.n]
  ELSE IF x.t = "float" THEN [ok |-> TRUE, val |-> x.n]
  ELSE IF x.t = "str" /\ IsFloatStr(Strip(x.s))
       THEN [ok |-> TRUE, val |-> FloatStrValue(Strip(x.s))]
  ELSE Failed

\* One candidate value of get_precursor_mz: the three isinstance branches.
TryPrecursor(v) ==
  IF v.t = "tuple"
  THEN (IF v.e = <<>> THEN Failed ELSE TryFloatOf(v.e[1]))
  ELSE IF v.t = "str"
       THEN (IF SplitTokens(v.s) = <<>> THEN Failed
             ELSE TryFloatOf(VStr(SplitTokens(v.s)[1])))
  ELSE TryFloatOf(v)

pepmass == <<"p", "e", "p", "m", "a", "s", "s">>

AltKeys ==
  << <<"p", "r", "e", "c", "u", "r", "s", "o", "r", "_", "m", "z">>,
     <<"p", "r", "e", "c", "u", "r", "s", "o", "r", "M", "z">>,
     <<"p", "a", "r", "e", "n", "t", "m", "a", "s", "s">>,
     <<"P", "a", "r", "e", "n", "t", "M", "a", "s", "s">>,
     <<"m", "s", "2", "p", "r", "e", "c", "u", "r", "s", "o", "r">>,
     <<"M", "S", "2", "P", "r", "e", "c", "u", "r", "s", "o", "r">> >>

\* The pepmass loop giving up at the first pepmass key, readable or not.
RECURSIVE PepmassLoop_StopAtFirstKey(_, _)
PepmassLoop_StopAtFirstKey(params, p) ==
  IF p > Len(params) THEN Failed
  ELSE IF Lower(params[p].k) = pepmass THEN TryPrecursor(params[p].v)
  ELSE PepmassLoop_StopAtFirstKey(params, p + 1)

\* for key in list(params.keys()): if key.lower() == "pepmass": ...
RECURSIVE PepmassLoop(_, _)
PepmassLoop(params, p) ==
  IF p > Len(params) THEN Failed
  ELSE IF Lower(params[p].k) = pepmass /\ TryPrecursor(params[p].v).ok
       THEN TryPrecursor(params[p].v)
  ELSE PepmassLoop(params, p + 1)

\* for alt in (...): if alt in params: ...
RECURSIVE AltLoop(_, _)
AltLoop(params, a) ==
  IF a > Len(AltKeys) THEN Failed
  ELSE IF HasKey(params, AltKeys[a]) /\ TryPrecursor(Get(params, AltKeys[a])).ok
       THEN TryPrecursor(Get(params, AltKeys[a]))
  ELSE AltLoop(params, a + 1)

get_precursor_mz(params) ==
  IF PepmassLoop(params, 1).ok THEN VFloat(PepmassLoop(params, 1).val)
  ELSE IF AltLoop(params, 1).ok THEN VFloat(AltLoop(params, 1).val)
  ELSE VNone

ScanKeys ==
  << <<"S", "C", "A", "N", "S">>,
     <<"s", "c", "a", "n", "s">>,
     <<"s", "c", "a", "n">>,
     <<"S", "C", "A", "N">>,
     <<"s", "c", "a", "n", "_", "n", "u", "m", "b", "e", "r">>,
     <<"S", "C", "A", "N", "_", "N", "U", "M", "B", "E", "R">>,
     <<"F", "E", "A", "T", "U", "R", "E", "_", "I", "D">>,
     <<"f", "e", "a", "t", "u", "r", "e", "_", "i", "d">> >>

\* The key search going on to later keys when a key holds an empty list.
RECURSIVE FirstParamFrom_SkipEmpty(_, _, _)
FirstParamFrom_SkipEmpty(params, keys, p) ==
  IF p > Len(keys) THEN VNone
  ELSE IF HasKey(params, keys[p]) /\ Get(params, keys[p]) # VTuple(<<>>)
       THEN (IF Get(params, keys[p]).t = "tuple" THEN Get(params, keys[p]).e[1]
             ELSE Get(params, keys[p]))
  ELSE FirstParamFrom_SkipEmpty(params, keys, p + 1)

RECURSIVE FirstParamFrom(_, _, _)
FirstParamFrom(params, keys, p) ==
  IF p > Len(keys) THEN VNone
  ELSE IF HasKey(params, keys[p])
       THEN (IF Get(params, keys[p]).t = "tuple"
             THEN (IF Get(params, keys[p]).e = <<>> THEN VNone
                   ELSE Get(params, keys[p]).e[1])
             ELSE Get(params, keys[p]))
  ELSE FirstParamFrom(params, keys, p + 1)

_first_param(params, keys) == FirstParamFrom(params, keys, 1)

\* repr of the float h / 100: 700 -> "7.0", 50025 -> "500.25", 1250 -> "12.5"
FloatRepr(h) ==
  IntStr(h \div 100) \o <<".">>
    \o (IF h % 10 = 0 THEN IntStr((h % 100) \div 10)
        ELSE <<DigitChars[((h % 100) \div 10) + 1], DigitChars[(h % 10) + 1]>>)

\* str(v) of a header value that is not None and not a list.
PyStr(v) ==
  IF v.t = "str" THEN v.s
  ELSE IF v.t = "int" THEN IntStr(v.n)
  ELSE FloatRepr(v.n)

\* The last run of digits of s instead of the first.
FirstDigitRun_Last(s) ==
  LET digs == {p \in 1..Len(s) : IsDigit(s[p])}
  IN IF digs = {} THEN <<>>
     ELSE LET b == CHOOSE x \in digs : \A p \in digs : p <= x
              a == CHOOSE x \in 1..b :
                     /\ \A p \in x..b : IsDigit(s[p])
                     /\ x = 1 \/ ~IsDigit(s[x - 1])
          IN SubSeq(s, a, b)

\* re.search(r"\d+", s).group(0), <<>> when there is no match: the
\* leftmost digit and the digits that follow it.
FirstDigitRun(s) ==
  LET digs == {p \in 1..Len(s) : IsDigit(s[p])}
  IN IF digs = {} THEN <<>>
     ELSE LET a == CHOOSE x \in digs : \A p \in digs : x <= p
              b == CHOOSE x \in a..Len(s) :
                     /\ \A p \in a..x : IsDigit(s[p])
                     /\ x = Len(s) \/ ~IsDigit(s[x + 1])
          IN SubSeq(s, a, b)

\* The pair (scans_val, scan_number).
extract_scans_fields(params) ==
  LET scans_val == _first_param(params, ScanKeys)
      m == IF scans_val = VNone THEN <<>>
           ELSE FirstDigitRun(Strip(PyStr(scans_val)))
  IN [scans |-> scans_val,
      scan_number |-> IF m = <<>> THEN VNone ELSE VInt(StrInt(m))]

(***************************************************************************)
(* State.  pc is the position of the running call, arg its arguments and   *)
(* ret what it returned.  The loader and the table builder keep their      *)
(* loop positions in i and j, the mapping batch -> spectra being filled in *)
(* spectra (a dict: the pairs in insertion order) and the rows in rows.    *)
(***************************************************************************)
VARIABLES pc, arg, ret, i, j, spectra, rows

vars == <<pc, arg, ret, i, j, spectra, rows>>

(***************************************************************************)
(* SpecFrag: select_fragments applied to bounded peak arrays.              *)
(***************************************************************************)
MaxPeaks == 3

MaxTopN == 3

IntensityValues == {-1, 0, 1, 3, 29, 100}

\* min_rel_pct in hundredths of a percent: 0, 1.0 (the default), 29, 33.33
\* and 100.
MinRelValues == {0, 100, 2900, 3333, 10000}

\* The m/z arrays of the model: ascending, descending, all equal, and one
\* element short (arrays of different lengths).
MzArrays(n) ==
  {[k \in 1..n |-> 100 * k], [k \in 1..n |-> 100 * (n + 1 - k)],
   [k \in 1..n |-> 100]}
    \cup (IF n > 0 THEN {[k \in 1..(n - 1) |-> 100 * k]} ELSE {})

InitFrag ==
  /\ pc = "select_fragments"
  /\ \E n \in 0..MaxPeaks :
       \E mz \in MzArrays(n), it \in [1..n -> IntensityValues] :
         \E t \in 0..MaxTopN, m \in MinRelValues :
           arg = [mzs |-> mz, intens |-> it, top_n |-> t, min_rel_pct |-> m]
  /\ ret = <<>>
  /\ i = 0
  /\ j = 0
  /\ spectra = <<>>
  /\ rows = <<>>

CallSelectFragments ==
  /\ pc = "select_fragments"
  /\ ret' = select_fragments(arg.mzs, arg.intens, arg.top_n, arg.min_rel_pct)
  /\ pc' = "returned"
  /\ UNCHANGED <<arg, i, j, spectra, rows>>

NextFrag == CallSelectFragments

SpecFrag == InitFrag /\ [][NextFrag]_vars

(***************************************************************************)
(* SpecPrec and SpecScan: get_precursor_mz and extract_scans_fields        *)
(* applied to bounded header mappings.                                     *)
(***************************************************************************)
MaxKeys == 2

\* All dicts of at most n entries with keys in K and values in V.
Dicts(K, V, n) ==
  UNION {{d \in [1..m -> [k : K, v : V]] :
            \A p, q \in 1..m : d[p].k = d[q].k => p = q} : m \in 0..n}

\* PEPMASS, pepmass, PepMass; three of the alternates; PRECURSOR_MZ, which
\* is none of them.
PrecKeys ==
  {<<"P", "E", "P", "M", "A", "S", "S">>, pepmass,
   <<"P", "e", "p", "M", "a", "s", "s">>,
   AltKeys[1], AltKeys[3], AltKeys[4],
   <<"P", "R", "E", "C", "U", "R", "S", "O", "R", "_", "M", "Z">>}

\* "500.25 1000", (500.25, 1000), "x,7", " , ", (), (None,), 250.1, None
PrecValues ==
  {VStr(<<"5", "0", "0", ".", "2", "5", " ", "1", "0", "0", "0">>),
   VTuple(<<VFloat(50025), VInt(1000)>>),
   VStr(<<"x", ",", "7">>),
   VStr(<<" ", ",", " ">>),
   VTuple(<<>>),
   VTuple(<<VNone>>),
   VFloat(25010),
   VNone}

InitPrec ==
  /\ pc = "get_precursor_mz"
  /\ \E d \in Dicts(PrecKeys, PrecValues, MaxKeys) : arg = [params |-> d]
  /\ ret = VNone
  /\ i = 0
  /\ j = 0
  /\ spectra = <<>>
  /\ rows = <<>>

CallGetPrecursorMz ==
  /\ pc = "get_precursor_mz"
  /\ ret' = get_precursor_mz(arg.params)
  /\ pc' = "returned"
  /\ UNCHANGED <<arg, i, j, spectra, rows>>

NextPrec == CallGetPrecursorMz

SpecPrec == InitPrec /\ [][NextPrec]_vars

\* SCANS, scans, scan, FEATURE_ID; Scans and TITLE, which are not in the
\* priority list.
ScanInputKeys ==
  {ScanKeys[1], ScanKeys[2], ScanKeys[3], ScanKeys[7],
   <<"S", "c", "a", "n", "s">>, <<"T", "I", "T", "L", "E">>}

\* "F3:12", "abc", " 9x", ("42",), (), 7, 12.5, None
ScanValues ==
  {VStr(<<"F", "3", ":", "1", "2">>),
   VStr(<<"a", "b", "c">>),
   VStr(<<" ", "9", "x">>),
   VTuple(<<VStr(<<"4", "2">>)>>),
   VTuple(<<>>),
   VInt(7),
   VFloat(1250),
   VNone}

InitScan ==
  /\ pc = "extract_scans_fields"
  /\ \E d \in Dicts(ScanInputKeys, ScanValues, MaxKeys) : arg = [params |-> d]
  /\ ret = [scans |-> VNone, scan_number |-> VNone]
  /\ i = 0
  /\ j = 0
  /\ spectra = <<>>
  /\ rows = <<>>

CallExtractScansFields ==
  /\ pc = "extract_scans_fields"
  /\ ret' = extract_scans_fields(arg.params)
  /\ pc' = "returned"
  /\ UNCHANGED <<arg, i, j, spectra, rows>>

NextScan == CallExtractScansFields

SpecScan == InitScan /\ [][NextScan]_vars

(***************************************************************************)
(* Spec: build_table_from_dir's two calls, load_mgf_spectra(directory)     *)
(* and then spectra_to_dataframe(mapping, top_n, min_rel_pct), on a        *)
(* directory listing drawn from five file names.                           *)
(***************************************************************************)
MaxFiles == 3

mgf == <<".", "m", "g", "f">>

\* a.mgf, a.MGF, b.Mgf, n.txt and .mgf
FileNames ==
  {<<"a", ".", "m", "g", "f">>, <<"a", ".", "M", "G", "F">>,
   <<"b", ".", "M", "g", "f">>, <<"n", ".", "t", "x", "t">>, mgf}

Spectrum(params, mz, intensity) ==
  [params |-> params, mz |-> mz, intensity |-> intensity]

Entry(k, v) == [k |-> k, v |-> v]

\* What mgf_reader.read yields for each file of the directory.
\* a.mgf: PEPMASS=(250.1, None), SCANS="7", three peaks; then a spectrum
\*        with no header and no peaks.
\* a.MGF: SCANS="F3:12", PEPMASS="abc", two peaks of intensity 0.
\* b.Mgf: no spectrum.
\* n.txt: one spectrum (the file is not an .mgf file).
\* .mgf:  scans=(), arrays of different lengths; FEATURE_ID=12,
\*        precursor_mz="500.25 1000", peaks of 29 and 100; one peak of
\*        intensity -1.
FileSpectra(fn) ==
  IF fn = <<"a", ".", "m", "g", "f">>
  THEN <<Spectrum(<<Entry(<<"P", "E", "P", "M", "A", "S", "S">>,
                          VTuple(<<VFloat(25010), VNone>>)),
                    Entry(ScanKeys[1], VStr(<<"7">>))>>,
                  <<100, 200, 300>>, <<10, 100, 50>>),
         Spectrum(<<>>, <<>>, <<>>)>>
  ELSE IF fn = <<"a", ".", "M", "G", "F">>
  THEN <<Spectrum(<<Entry(ScanKeys[1], VStr(<<"F", "3", ":", "1", "2">>)),
                    Entry(<<"P", "E", "P", "M", "A", "S", "S">>,
                          VStr(<<"a", "b", "c">>))>>,
                  <<100, 200>>, <<0, 0>>)>>
  ELSE IF fn = <<"b", ".", "M", "g", "f">> THEN <<>>
  ELSE IF fn = <<"n", ".", "t", "x", "t">>
  THEN <<Spectrum(<<Entry(ScanKeys[1], VStr(<<"1">>))>>, <<100>>, <<100>>)>>
  ELSE <<Spectrum(<<Entry(ScanKeys[2], VTuple(<<>>))>>, <<100>>, <<5, 7>>),
         Spectrum(<<Entry(ScanKeys[7], VInt(12)),
                    Entry(AltKeys[1],
                          VStr(<<"5", "0", "0", ".", "2", "5", " ",
                                 "1", "0", "0", "0">>))>>,
                  <<200, 100>>, <<100, 29>>),
         Spectrum(<<>>, <<300>>, <<-1>>)>>

\* os.path.splitext(fn)[0] of a name without a directory part: the name up
\* to its last point, unless only points come before that point.
SplitExtStem(fn) ==
  LET dots == {p \in 1..Len(fn) : fn[p] = "."}
  IN IF dots = {} THEN fn
     ELSE LET d == CHOOSE x \in dots : \A p \in dots : p <= x
          IN IF \E p \in 1..(d - 1) : fn[p] # "." THEN SubSeq(fn, 1, d - 1)
             ELSE fn

\* The loop body's dict for one spectrum the reader yields:
\* list(map(float, mz)) if len(mz) else [] (the values are whole numbers,
\* which float() keeps).
LoadedSpectrum(spec) ==
  [params |-> spec.params, mz |-> spec.mz, intensity |-> spec.intensity]

\* The loop body without the reset spectra[batch] = [].
LoadBatch_Append(d, batch, read) ==
  DictSet(d, batch,
          (IF HasKey(d, batch) THEN Get(d, batch) ELSE <<>>)
            \o [k \in 1..Len(read) |-> LoadedSpectrum(read[k])])

\* spectra[batch] = [] and then one append per spectrum of the file.
LoadBatch(d, batch, read) ==
  DictSet(DictSet(d, batch, <<>>), batch,
          [k \in 1..Len(read) |-> LoadedSpectrum(read[k])])

Init ==
  /\ pc = "load_mgf_spectra"
  /\ \/ \E t \in 1..MaxTopN, m \in MinRelValues :
          arg = [exists |-> FALSE, listing |-> <<>>,
                 top_n |-> t, min_rel_pct |-> m]
     \/ \E n \in 0..MaxFiles :
          \E l \in [1..n -> FileNames] :
            /\ \A p, q \in 1..n : l[p] = l[q] => p = q
            /\ \E t \in 1..MaxTopN, m \in MinRelValues :
                 arg = [exists |-> TRUE, listing |-> l,
                        top_n |-> t, min_rel_pct |-> m]
  /\ ret = <<>>
  /\ i = 0
  /\ j = 0
  /\ spectra = <<>>
  /\ rows = <<>>

\* A loader that returns an empty mapping for a missing directory.
ListDirRaises_ReturnsEmpty ==
  /\ pc = "load_mgf_spectra"
  /\ ~arg.exists
  /\ ret' = <<>>
  /\ pc' = "spectra_to_dataframe"
  /\ i' = 1
  /\ j' = 1
  /\ rows' = <<>>
  /\ UNCHANGED <<arg, spectra>>

\* os.listdir(directory_path) of a path that is no directory raises
\* FileNotFoundError, which load_mgf_spectra does not catch.
ListDirRaises ==
  /\ pc = "load_mgf_spectra"
  /\ ~arg.exists
  /\ pc' = "raised"
  /\ UNCHANGED <<arg, ret, i, j, spectra, rows>>

ListDir ==
  /\ pc = "load_mgf_spectra"
  /\ arg.exists
  /\ pc' = "listdir"
  /\ i' = 1
  /\ spectra' = <<>>
  /\ UNCHANGED <<arg, ret, j, rows>>

\* One iteration of `for fn in os.listdir(...)` on a name that does not
\* end in .mgf: continue.
SkipFile ==
  /\ pc = "listdir"
  /\ i <= Len(arg.listing)
  /\ ~EndsWith(Lower(arg.listing[i]), mgf)
  /\ i' = i + 1
  /\ UNCHANGED <<pc, arg, ret, j, spectra, rows>>

\* One iteration on an .mgf file: the batch is reset, then filled.
LoadFile ==
  /\ pc = "listdir"
  /\ i <= Len(arg.listing)
  /\ EndsWith(Lower(arg.listing[i]), mgf)
  /\ spectra' = LoadBatch(spectra, SplitExtStem(arg.listing[i]),
                          FileSpectra(arg.listing[i]))
  /\ i' = i + 1
  /\ UNCHANGED <<pc, arg, ret, j, rows>>

\* return spectra; the caller passes it to spectra_to_dataframe.
LoadReturn ==
  /\ pc = "listdir"
  /\ i > Len(arg.listing)
  /\ ret' = spectra
  /\ pc' = "spectra_to_dataframe"
  /\ i' = 1
  /\ j' = 1
  /\ rows' = <<>>
  /\ UNCHANGED <<arg, spectra>>

\* The count without the test for the empty string.
NFragments_NoEmptyCheck(frag_str) == Count(frag_str, ";") + 1

\* frag_str.count(";") + 1 if frag_str else 0
NFragments(frag_str) ==
  IF frag_str # <<>> THEN Count(frag_str, ";") + 1 ELSE 0

\* The row of one spectrum.
MakeRow(batch, spec, top_n, min_rel_pct) ==
  LET frag_str == select_fragments(spec.mz, spec.intensity, top_n, min_rel_pct)
  IN [batch |-> batch,
      scans |-> extract_scans_fields(spec.params).scans,
      scan_number |-> extract_scans_fields(spec.params).scan_number,
      precursor_mass |-> get_precursor_mz(spec.params),
      fragments |-> frag_str,
      n_fragments |-> NFragments(frag_str)]

\* The inner loop leaving out the spectra that give no fragment.
BuildRow_SkipEmpty ==
  /\ pc = "spectra_to_dataframe"
  /\ i <= Len(ret)
  /\ j <= Len(ret[i].v)
  /\ rows' = IF MakeRow(ret[i].k, ret[i].v[j], arg.top_n, arg.min_rel_pct).fragments = <<>>
             THEN rows
             ELSE Append(rows, MakeRow(ret[i].k, ret[i].v[j],
                                       arg.top_n, arg.min_rel_pct))
  /\ j' = j + 1
  /\ UNCHANGED <<pc, arg, ret, i, spectra>>

\* One iteration of the inner loop `for spec in spectra`.
BuildRow ==
  /\ pc = "spectra_to_dataframe"
  /\ i <= Len(ret)
  /\ j <= Len(ret[i].v)
  /\ rows' = Append(rows, MakeRow(ret[i].k, ret[i].v[j],
                                  arg.top_n, arg.min_rel_pct))
  /\ j' = j + 1
  /\ UNCHANGED <<pc, arg, ret, i, spectra>>

\* The inner loop is over: the next item of spectra_by_batch.items().
NextBatch ==
  /\ pc = "spectra_to_dataframe"
  /\ i <= Len(ret)
  /\ j > Len(ret[i].v)
  /\ i' = i + 1
  /\ j' = 1
  /\ UNCHANGED <<pc, arg, ret, spectra, rows>>

\* return pd.DataFrame(rows)
BuildReturn ==
  /\ pc = "spectra_to_dataframe"
  /\ i > Len(ret)
  /\ pc' = "done"
  /\ UNCHANGED <<arg, ret, i, j, spectra, rows>>

Next ==
  \/ ListDirRaises
  \/ ListDir
  \/ SkipFile
  \/ LoadFile
  \/ LoadReturn
  \/ BuildRow
  \/ NextBatch
  \/ BuildReturn

Spec == Init /\ [][Next]_vars

(***************************************************************************)
(* Reading a fragment string back: app.py's _parse_frag_string, the two    *)
(* arrays of m/z and of relative intensities, both in hundredths.          *)
(***************************************************************************)
\* s.split(c) for a one-character c.
SplitOn(s, c) ==
  LET cuts == {0, Len(s) + 1} \cup {p \in 1..Len(s) : s[p] = c}
      Kth(k) == CHOOSE x \in cuts : Cardinality({y \in cuts : y < x}) = k - 1
  IN [k \in 1..(Cardinality(cuts) - 1) |-> SubSeq(s, Kth(k) + 1, Kth(k + 1) - 1)]

\* part.split(":", 1) of a part that holds a colon.
SplitFirstColon(part) ==
  LET c == CHOOSE x \in 1..Len(part) :
             part[x] = ":" /\ \A p \in 1..(x - 1) : part[p] # ":"
  IN <<SubSeq(part, 1, c - 1), SubSeq(part, c + 1, Len(part))>>

\* s.replace(c, "") for a one-character c.
RemoveChar(s, c) ==
  LET keep == {p \in 1..Len(s) : s[p] # c}
      Kth(k) == CHOOSE x \in keep : Cardinality({y \in keep : y < x}) = k - 1
  IN [k \in 1..Cardinality(keep) |-> s[Kth(k)]]

\* [part.strip() for part in frag_str.split(";")]
StrippedParts(frag_str) ==
  LET raw == SplitOn(frag_str, ";")
  IN [k \in 1..Len(raw) |-> Strip(raw[k])]

\* The stripped part reaches the try: it is not empty and holds a colon.
ReachesTry(part) ==
  /\ part # <<>>
  /\ \E p \in 1..Len(part) : part[p] = ":"

\* mz_txt and rel_txt.replace("%", "") of a part that reaches the try.
MzTxt(part) == SplitFirstColon(part)[1]

RelTxt(part) == RemoveChar(SplitFirstColon(part)[2], "%")

\* mzs.append(float(mz_txt)) is done: float() accepts mz_txt.
MzAppended(part) == ReachesTry(part) /\ IsFloatStr(Strip(MzTxt(part)))

\* rels.append(float(...)) is done: the try got past the first append and
\* float() accepts the second text.
RelAppended(part) == MzAppended(part) /\ IsFloatStr(Strip(RelTxt(part)))

\* The pair (mzs, rels); the arrays differ in length when a part's m/z
\* converts and its relative intensity does not.
_parse_frag_string(frag_str) ==
  IF frag_str = <<>> THEN [mzs |-> <<>>, rels |-> <<>>]
  ELSE LET withMz == SelectSeq(StrippedParts(frag_str), MzAppended)
           withRel == SelectSeq(withMz, RelAppended)
       IN [mzs |-> [k \in 1..Len(withMz) |-> FloatStrValue(Strip(MzTxt(withMz[k])))],
           rels |-> [k \in 1..Len(withRel) |-> FloatStrValue(Strip(RelTxt(withRel[k])))]]

(***************************************************************************)
(* Claims about select_fragments (SpecFrag).                               *)
(***************************************************************************)
\* Equal-length, non-empty arrays with a maximum intensity above 0.
FragValid ==
  /\ Len(arg.mzs) = Len(arg.intens)
  /\ Len(arg.intens) > 0
  /\ \E p \in 1..Len(arg.intens) : arg.intens[p] > 0

FragBase == ArrMax(arg.intens)

\* The m/z and the relative intensities read back from the returned string.
FragMzs == _parse_frag_string(ret).mzs

FragRels == _parse_frag_string(ret).rels

\* 100 * intensity / base >= min_rel_pct in exact arithmetic (min_rel_pct
\* is in hundredths).
C2_Qualifying ==
  {k \in 1..Len(arg.intens) : 10000 * arg.intens[k] >= arg.min_rel_pct * FragBase}

\* Relative intensity descending, ties by m/z ascending.
C2_Before(l, k) ==
  \/ arg.intens[l] > arg.intens[k]
  \/ /\ arg.intens[l] = arg.intens[k]
     /\ \/ arg.mzs[l] < arg.mzs[k]
        \/ arg.mzs[l] = arg.mzs[k] /\ l < k

C2_Rank(k) == Cardinality({l \in C2_Qualifying : C2_Before(l, k)}) + 1

C2_Count ==
  IF arg.top_n < Cardinality(C2_Qualifying) THEN arg.top_n
  ELSE Cardinality(C2_Qualifying)

C2_ExpectedMz ==
  [r \in 1..C2_Count |->
     100 * arg.mzs[CHOOSE k \in C2_Qualifying : C2_Rank(k) = r]]

\* C2: for equal-length non-empty arrays with a maximum intensity above 0,
\* the returned string holds exactly the peaks with 100 * intensity / max
\* >= min_rel_pct (inclusive), sorted by relative intensity descending and
\* m/z ascending, cut to the first top_n; the number of tokens is
\* min(top_n, number of qualifying peaks).
C2_EncodesQualifyingPeaks ==
  (pc = "returned" /\ FragValid)
    => /\ Len(FragMzs) = C2_Count
       /\ Len(FragRels) = C2_Count
       /\ FragMzs = C2_ExpectedMz

\* C3 as stated: at most top_n tokens, and every token's written relative
\* intensity (one decimal) is >= min_rel_pct.
C3_WrittenAtLeastMinRel ==
  (pc = "returned" /\ FragValid /\ arg.top_n >= 1)
    => /\ Len(FragRels) <= arg.top_n
       /\ \A k \in 1..Len(FragRels) :
            FragRels[k] >= arg.min_rel_pct

\* C3 amended: at most top_n tokens; every token's written relative
\* intensity is >= min_rel_pct when min_rel_pct has at most one decimal,
\* and in general is the rounding to one decimal of a relative intensity
\* that is itself >= min_rel_pct.
C3_Amended ==
  (pc = "returned" /\ FragValid /\ arg.top_n >= 1)
    => LET mzs == FragMzs
           rels == FragRels
       IN /\ Len(rels) <= arg.top_n
          /\ Len(rels) = Len(mzs)
          /\ Len(mzs) = Count(ret, ";") + (IF ret = <<>> THEN 0 ELSE 1)
          /\ arg.min_rel_pct % 10 = 0
               => \A k \in 1..Len(rels) : rels[k] >= arg.min_rel_pct
          /\ \A k \in 1..Len(rels) :
               \E p \in 1..Len(arg.intens) :
                 /\ mzs[k] = 100 * arg.mzs[p]
                 /\ FGe(RelPct(arg.intens[p], FragBase), FDiv(arg.min_rel_pct, 100))
                 /\ rels[k]
                      = 10 * FRint(FMulInt(RelPct(arg.intens[p], FragBase), 10))

\* C3's case: a threshold with one decimal, a peak below it left out and
\* the string cut to top_n tokens.
C3_Witness ==
  /\ pc = "returned"
  /\ FragValid
  /\ arg.min_rel_pct = 2900
  /\ arg.top_n = 2
  /\ Len(arg.intens) = 3
  /\ Len(FragRels) = 2
  /\ \E p \in 1..3 : arg.intens[p] = 1
  /\ \E p \in 1..3 : arg.intens[p] = 100

\* C10 as stated: with a maximum intensity above 0 every peak's relative
\* intensity is in (0, 100], every written peak's is above 0 and at most
\* 100, and the first token's is 100.  (Stated for intensities >= 0: the
\* claim fails without any negative intensity.)
C10_RelInOpenZeroHundred ==
  (/\ pc = "returned" /\ FragValid /\ arg.top_n >= 1
   /\ \A p \in 1..Len(arg.intens) : arg.intens[p] >= 0)
    => /\ \A p \in 1..Len(arg.intens) :
            /\ FLt(FZero, RelPct(arg.intens[p], FragBase))
            /\ FGe(FDiv(100, 1), RelPct(arg.intens[p], FragBase))
       /\ \A k \in 1..Len(SelectedPeaks(arg.mzs, arg.intens, arg.top_n, arg.min_rel_pct)) :
            FLt(FZero, RelPct(arg.intens[SelectedPeaks(arg.mzs, arg.intens,
                                           arg.top_n, arg.min_rel_pct)[k]], FragBase))
       /\ FragRels # <<>>
       /\ FragRels[1] = 10000

\* C10 amended: with a maximum intensity above 0 every peak's relative
\* intensity is at most 100; every written peak's is in [0, 100], and is 0
\* only for a peak of intensity 0 with min_rel_pct = 0; the string is not
\* empty and its first token's relative intensity is 100.
C10_Amended ==
  (pc = "returned" /\ FragValid /\ arg.top_n >= 1)
    => /\ \A p \in 1..Len(arg.intens) :
            FGe(FDiv(100, 1), RelPct(arg.intens[p], FragBase))
       /\ \A k \in 1..Len(SelectedPeaks(arg.mzs, arg.intens, arg.top_n, arg.min_rel_pct)) :
            LET p == SelectedPeaks(arg.mzs, arg.intens, arg.top_n, arg.min_rel_pct)[k]
            IN /\ FGe(RelPct(arg.intens[p], FragBase), FZero)
               /\ \/ FLt(FZero, RelPct(arg.intens[p], FragBase))
                  \/ arg.intens[p] = 0 /\ arg.min_rel_pct = 0
       /\ LET rels == FragRels
          IN /\ \A k \in 1..Len(rels) : rels[k] >= 0 /\ rels[k] <= 10000
             /\ rels # <<>>
             /\ rels[1] = 10000

\* C10's case: min_rel_pct = 0 and a peak of intensity 0 that is written.
C10_Witness ==
  /\ pc = "returned"
  /\ FragValid
  /\ arg.min_rel_pct = 0
  /\ arg.top_n >= 2
  /\ \E k \in 1..Len(FragRels) : FragRels[k] = 0

(***************************************************************************)
(* Claims about get_precursor_mz (SpecPrec).                               *)
(***************************************************************************)
\* The entries whose key is pepmass in any case, and which yield a number.
C4_PepmassHits ==
  {p \in 1..Len(arg.params) :
     /\ Len(arg.params[p].k) = 7
     /\ \A c \in 1..7 : arg.params[p].k[c] \in {pepmass[c], UpperChars[
          CHOOSE u \in 1..26 : LowerChars[u] = pepmass[c]]}
     /\ TryPrecursor(arg.params[p].v).ok}

\* The alternates that are keys (case-sensitively) and yield a number.
C4_AltHits ==
  {a \in 1..Len(AltKeys) :
     /\ \E p \in 1..Len(arg.params) : arg.params[p].k = AltKeys[a]
     /\ TryPrecursor(Get(arg.params, AltKeys[a])).ok}

C4_Min(S) == CHOOSE x \in S : \A y \in S : x <= y

C4_Expected ==
  IF C4_PepmassHits # {}
  THEN VFloat(TryPrecursor(arg.params[C4_Min(C4_PepmassHits)].v).val)
  ELSE IF C4_AltHits # {}
  THEN VFloat(TryPrecursor(Get(arg.params, AltKeys[C4_Min(C4_AltHits)])).val)
  ELSE VNone

C4_Str50025 == VStr(<<"5", "0", "0", ".", "2", "5", " ", "1", "0", "0", "0">>)

C4_Tuple50025 == VTuple(<<VFloat(50025), VInt(1000)>>)

\* C4: get_precursor_mz returns the number of the first key equal to
\* 'pepmass' case-insensitively (in the mapping's order) that yields one;
\* only if none does, of the first alternate in the fixed order that is a
\* key and yields one; null (never 0) when no candidate yields a number.
\* A list gives its element 0, a string its first token after splitting on
\* commas and blanks; an empty list, a token that is no number and a null
\* are failures.  {'PEPMASS': '500.25 1000'} and {'pepmass': (500.25, 1000)}
\* give 500.25.
C4_PrecursorFirstCandidate ==
  pc = "returned"
    => /\ ret = C4_Expected
       /\ ret.t = "float" \/ ret = VNone
       /\ \A p \in 1..Len(arg.params) :
            (Lower(arg.params[p].k) = pepmass
               /\ arg.params[p].v \in {C4_Str50025, C4_Tuple50025}
               /\ \A q \in 1..(p - 1) : Lower(arg.params[q].k) # pepmass)
              => ret = VFloat(50025)
       /\ (\A p \in 1..Len(arg.params) :
             arg.params[p].v \in {VStr(<<"x", ",", "7">>), VStr(<<" ", ",", " ">>),
                                  VTuple(<<>>), VTuple(<<VNone>>), VNone})
            => ret = VNone

\* C4's case: a pepmass key whose value is no number, so that the result
\* comes from an alternate.
C4_Witness ==
  /\ pc = "returned"
  /\ Len(arg.params) = 2
  /\ arg.params[1].k = AltKeys[3]
  /\ arg.params[1].v = C4_Str50025
  /\ Lower(arg.params[2].k) = pepmass
  /\ arg.params[2].v = VStr(<<"x", ",", "7">>)
  /\ ret = VFloat(50025)

(***************************************************************************)
(* Claims about extract_scans_fields (SpecScan).                           *)
(***************************************************************************)
\* The places in the priority list of the keys the header has.
C5_Present ==
  {p \in 1..Len(ScanKeys) : \E q \in 1..Len(arg.params) : arg.params[q].k = ScanKeys[p]}

\* The value of the first key present, a list giving its first element.
C5_Raw ==
  IF C5_Present = {} THEN VNone
  ELSE LET v == Get(arg.params, ScanKeys[C4_Min(C5_Present)])
       IN IF v.t # "tuple" THEN v
          ELSE IF Len(v.e) = 0 THEN VNone ELSE v.e[1]

\* The string form of a value.
C5_Text(v) ==
  IF v.t = "str" THEN v.s
  ELSE IF v.t = "int" THEN IntStr(v.n)
  ELSE IF v.t = "float" THEN FloatRepr(v.n)
  ELSE <<>>

\* s[a..b] is the first maximal run of decimal digits of s.
C5_FirstRun(s, a, b) ==
  /\ a <= b
  /\ \A p \in a..b : IsDigit(s[p])
  /\ \A p \in 1..(a - 1) : ~IsDigit(s[p])
  /\ b = Len(s) \/ ~IsDigit(s[b + 1])

\* The number a digit string denotes.
C5_Value(s, a, b) ==
  IF a = b THEN DigitVal(s[a])
  ELSE IF b = a + 1 THEN 10 * DigitVal(s[a]) + DigitVal(s[b])
  ELSE 100 * DigitVal(s[a]) + 10 * DigitVal(s[a + 1]) + DigitVal(s[b])

\* C5: extract_scans_fields uses the value of the first key present in
\* the case-sensitive priority list (later keys are not consulted, and
\* 'Scans' is no key of the list), a list giving its first element; it
\* returns that raw value unchanged and the integer of the first maximal
\* run of decimal digits of its string form, null exactly when the raw
\* value is absent or its string form has no digit.
C5_ScansFirstKeyFirstRun ==
  pc = "returned"
    => /\ ret.scans = C5_Raw
       /\ ret.scan_number = VNone
            <=> \/ C5_Raw = VNone
                \/ \A p \in 1..Len(C5_Text(C5_Raw)) : ~IsDigit(C5_Text(C5_Raw)[p])
       /\ \A a, b \in 1..Len(C5_Text(C5_Raw)) :
            C5_FirstRun(C5_Text(C5_Raw), a, b)
              => ret.scan_number = VInt(C5_Value(C5_Text(C5_Raw), a, b))

\* C5's case: the first key present holds an empty list and a later key of
\* the list a number.
C5_Witness ==
  /\ pc = "returned"
  /\ Len(arg.params) = 2
  /\ arg.params[1].k = ScanKeys[7]
  /\ arg.params[1].v = VFloat(1250)
  /\ arg.params[2].k = ScanKeys[2]
  /\ arg.params[2].v = VTuple(<<>>)
  /\ ret.scans = VNone
  /\ ret.scan_number = VNone

C6_Header == <<[k |-> ScanKeys[1], v |-> VStr(<<"F", "3", ":", "1", "2">>)]>>

\* C6 as stated: the header {"SCANS": "F3:12"} gives raw scans "F3:12" and
\* scan_number 12.
C6_ScanNumberTwelve ==
  (pc = "returned" /\ arg.params = C6_Header)
    => /\ ret.scans = VStr(<<"F", "3", ":", "1", "2">>)
       /\ ret.scan_number = VInt(12)

\* C6 amended: the header {"SCANS": "F3:12"} gives raw scans "F3:12" and
\* scan_number 3, the first run of digits.
C6_Amended ==
  (pc = "returned" /\ arg.params = C6_Header)
    => /\ ret.scans = VStr(<<"F", "3", ":", "1", "2">>)
       /\ ret.scan_number = VInt(3)

\* C6's case: extract_scans_fields has returned for {"SCANS": "F3:12"}.
C6_Witness ==
  /\ pc = "returned"
  /\ arg.params = C6_Header
  /\ ret.scan_number # VNone

(***************************************************************************)
(* Claims about load_mgf_spectra and spectra_to_dataframe (Spec).          *)
(***************************************************************************)
\* The spectra of a mapping in the order of its batches and, within a
\* batch, of its list.
RECURSIVE C1_Flat(_)
C1_Flat(d) ==
  IF d = <<>> THEN <<>>
  ELSE [k \in 1..Len(Head(d).v) |-> [batch |-> Head(d).k, spec |-> Head(d).v[k]]]
         \o C1_Flat(Tail(d))

RECURSIVE C1_SumLens(_)
C1_SumLens(d) == IF d = <<>> THEN 0 ELSE Len(Head(d).v) + C1_SumLens(Tail(d))

\* The loader has returned and spectra_to_dataframe runs or has returned.
C1_Building == pc \in {"spectra_to_dataframe", "done"}

\* C1: spectra_to_dataframe emits one row per spectrum, in the mapping's
\* insertion order and the list order within a batch: row k carries the
\* batch name of the k-th spectrum encountered, no row is dropped or
\* duplicated, and on return the row count is the sum of the list lengths,
\* whatever the spectra hold.
C1_OneRowPerSpectrum ==
  C1_Building
    => /\ Len(rows) <= Len(C1_Flat(ret))
       /\ \A k \in 1..Len(rows) : rows[k].batch = C1_Flat(ret)[k].batch
       /\ pc = "done" => Len(rows) = C1_SumLens(ret)

\* C1's case: a table of five rows built from two batches, among them
\* spectra with no header, with no peaks and with arrays of different
\* lengths.
C1_Witness ==
  /\ pc = "done"
  /\ Len(ret) = 2
  /\ Len(rows) = 5
  /\ rows[2].batch # rows[3].batch
  /\ \E k \in 1..5 : C1_Flat(ret)[k].spec.params = <<>>
  /\ \E k \in 1..5 : Len(C1_Flat(ret)[k].spec.mz) # Len(C1_Flat(ret)[k].spec.intensity)

\* Zero peaks, arrays of different lengths, or no intensity above 0.
C7_Degenerate(spec) ==
  \/ Len(spec.mz) = 0
  \/ Len(spec.intensity) = 0
  \/ Len(spec.mz) # Len(spec.intensity)
  \/ \A p \in 1..Len(spec.intensity) : spec.intensity[p] <= 0

\* C7: the row of a spectrum with zero peaks, arrays of different lengths
\* or a maximum intensity <= 0 is emitted with its batch, scan and
\* precursor fields, an empty fragment string and n_fragments 0, for every
\* top_n and min_rel_pct; in every row n_fragments is 0 exactly when the
\* fragment string is empty and otherwise the number of ';' plus 1.
C7_DegenerateRowEmpty ==
  C1_Building
    => \A k \in 1..Len(rows) :
         /\ C7_Degenerate(C1_Flat(ret)[k].spec)
              => /\ rows[k].fragments = <<>>
                 /\ rows[k].n_fragments = 0
                 /\ rows[k].batch = C1_Flat(ret)[k].batch
                 /\ rows[k].scans = extract_scans_fields(C1_Flat(ret)[k].spec.params).scans
                 /\ rows[k].precursor_mass = get_precursor_mz(C1_Flat(ret)[k].spec.params)
         /\ rows[k].n_fragments = 0 <=> rows[k].fragments = <<>>
         /\ rows[k].fragments # <<>>
              => rows[k].n_fragments
                   = Cardinality({p \in 1..Len(rows[k].fragments) :
                                    rows[k].fragments[p] = ";"}) + 1

\* C7's case: the table holds the row of an all-zero spectrum, with its
\* raw scans, and a row with two fragments.
C7_Witness ==
  /\ pc = "done"
  /\ \E k \in 1..Len(rows) :
       /\ C1_Flat(ret)[k].spec.intensity = <<0, 0>>
       /\ rows[k].fragments = <<>>
       /\ rows[k].n_fragments = 0
       /\ rows[k].scans = VStr(<<"F", "3", ":", "1", "2">>)
  /\ \E k \in 1..Len(rows) : rows[k].n_fragments = 2

\* The name ends in '.mgf' in any case.
C8_IsMgf(fn) ==
  /\ Len(fn) >= 4
  /\ fn[Len(fn) - 3] = "."
  /\ fn[Len(fn) - 2] \in {"m", "M"}
  /\ fn[Len(fn) - 1] \in {"g", "G"}
  /\ fn[Len(fn)] \in {"f", "F"}

\* The name without its extension (a name that is all extension keeps it).
C8_Stem(fn) ==
  IF \A p \in 1..(Len(fn) - 4) : fn[p] = "." THEN fn
  ELSE SubSeq(fn, 1, Len(fn) - 4)

\* The places, among the first n entries, of the files of a batch.
C8_Files(batch, n) ==
  {p \in 1..n : C8_IsMgf(arg.listing[p]) /\ C8_Stem(arg.listing[p]) = batch}

C8_Max(S) == CHOOSE x \in S : \A y \in S : y <= x

\* The mapping d is what the first n entries of the directory give.
C8_MappingAfter(d, n) ==
  /\ \A p \in 1..n :
       C8_IsMgf(arg.listing[p]) => HasKey(d, C8_Stem(arg.listing[p]))
  /\ \A q, r \in 1..Len(d) : d[q].k = d[r].k => q = r
  /\ \A q \in 1..Len(d) :
       /\ C8_Files(d[q].k, n) # {}
       /\ d[q].v = FileSpectra(arg.listing[C8_Max(C8_Files(d[q].k, n))])

\* C8: load_mgf_spectra takes the entries one at a time; an entry is a
\* batch iff its name ends in '.mgf' case-insensitively, under its name
\* without the extension; when two files give the same batch name the
\* mapping holds for it only the spectra of the later one, other batches
\* are unaffected and nothing is raised.
C8_LastWriteWins ==
  /\ pc = "listdir" => C8_MappingAfter(spectra, i - 1)
  /\ C1_Building => C8_MappingAfter(ret, Len(arg.listing))
  /\ arg.exists => pc # "raised"

\* C8's case: a.mgf (two spectra), b.Mgf and then a.MGF (one spectrum)
\* were read; batch a holds the one spectrum of a.MGF.
C8_Witness ==
  /\ C1_Building
  /\ Len(arg.listing) = 3
  /\ arg.listing[1] = <<"a", ".", "m", "g", "f">>
  /\ arg.listing[3] = <<"a", ".", "M", "G", "F">>
  /\ Len(ret) = 2
  /\ ret[1].k = <<"a">>
  /\ ret[1].v = FileSpectra(<<"a", ".", "M", "G", "F">>)
  /\ Len(ret[1].v) = 1
  /\ ret[2].k = <<"b">>

\* C9 as stated: for a directory that does not exist the loader returns an
\* empty mapping and does not raise.
C9_MissingDirGivesEmptyMapping ==
  (~arg.exists /\ pc # "load_mgf_spectra")
    => /\ pc # "raised"
       /\ ret = <<>>

\* C9 amended: for a directory that does not exist the loader raises
\* (the FileNotFoundError of os.listdir) and returns no mapping; a
\* directory with no '.mgf' entry gives an empty mapping, and a matching
\* file with zero spectra gives its batch key mapped to an empty list,
\* both without raising.
C9_Amended ==
  /\ (~arg.exists /\ pc # "load_mgf_spectra")
       => pc = "raised" /\ ret = <<>> /\ rows = <<>>
  /\ (arg.exists /\ C1_Building)
       => /\ (\A p \in 1..Len(arg.listing) : ~C8_IsMgf(arg.listing[p]))
               => ret = <<>>
          /\ \A p \in 1..Len(arg.listing) :
               (/\ C8_IsMgf(arg.listing[p])
                /\ FileSpectra(arg.listing[p]) = <<>>
                /\ \A q \in (p + 1)..Len(arg.listing) :
                     C8_IsMgf(arg.listing[q])
                       => C8_Stem(arg.listing[q]) # C8_Stem(arg.listing[p]))
                 => /\ HasKey(ret, C8_Stem(arg.listing[p]))
                    /\ Get(ret, C8_Stem(arg.listing[p])) = <<>>
  /\ arg.exists => pc # "raised"

\* C9's case: load_mgf_spectra was called on a directory that does not
\* exist and has raised.
C9_Witness ==
  /\ ~arg.exists
  /\ pc = "raised"
  /\ ret = <<>>

====
